---- MODULE Spec2Model ----
(***************************************************************************)
(* Subscription activation pipeline of the VPN bot backend:                *)
(*   src/backend/main.py       HTTP handlers (webhook, admin extension,    *)
(*                             payment creation) and the audit log         *)
(*   src/backend/models.py     the ledger rows (User, Payment, Tariff)     *)
(*   src/backend/xui_client.py the provisioning client (panel fan-out)     *)
(*   src/bot/main.py           the Telegram bot's extension dialogue       *)
(*                                                                         *)
(* Time is counted in whole days: datetime.utcnow() is the clock `now`,    *)
(* timedelta(days=d) is d.  The code between two awaits of a handler runs  *)
(* at one reading of the clock; the clock advances between steps.          *)
(* A handler works on its own ORM session: rows are loaded when queried,   *)
(* changed in the session, and written to the ledger by db.commit().       *)
(***************************************************************************)
EXTENDS Integers, Sequences, FiniteSets, TLC

(* ------------------------------ bounds -------------------------------- *)
\* webhook handlers that may be in flight at once
NumHandlers == 2
\* requests served in one behaviour, after the first payment was created
MaxRequests == 2
\* last day the clock reaches
MaxTime == 1
\* external accounts (telegram ids)
NumAccounts == 1
\* payment intents created in one behaviour
MaxPayments == 2
\* tokens in the inbound_ids text of the tariff of SpecProvision
MaxInbounds == 2

Handlers == 1..NumHandlers
TelegramIds == 1..NumAccounts
UserIds == 1..NumAccounts
PaymentIds == 1..MaxPayments

(* ----------------------------- constants ------------------------------ *)
\* calculate_expiry_timestamp: the panel counts milliseconds; one day of them
MsPerDay == 86400000

\* Python's None for a DateTime column, an id or a status
NoDate == -100
NoId == 0
NoStatus == "none"

\* status strings the gateway's notifications carry; the column itself is a
\* free String
WebhookStatuses == {"waiting_for_capture", "succeeded", "canceled"}

\* days an administrator may pass to /users/{id}/extend (any int is accepted)
ExtendDays == {-1, 2}

\* an inbound_ids token: a number n >= 1 stands for the text "n", 0 for a
\* non-numeric text, -1 for a blank one
BlankToken == -1
BadToken == 0

\* the tariffs table (rows written by create_tariff)
InitTariffs ==
    (1 :> [price |-> 299, duration_days |-> 2, inbound_ids |-> <<1, 2>>, active |-> TRUE]) @@
    (2 :> [price |-> 100, duration_days |-> 1, inbound_ids |-> <<3, BlankToken>>, active |-> TRUE])

VARIABLES
    now,             \* datetime.utcnow(), in days
    users,           \* table users: id -> row
    payments,        \* table payments: yookassa_payment_id -> row
    tariffs,         \* table tariffs: id -> row
    logs,            \* table logs: number of rows
    xui_configured,  \* XUI_URL and XUI_TOKEN are both set
    req,             \* webhook handler in flight -> its frame and ORM session
    reply,           \* the answer given to the request served last
    nreq,            \* requests served so far
    fsm,             \* the bot's FSM state of the chat (MemoryStorage)
    answer,          \* the bot's last message to the chat
    keyboards        \* the inline keyboards of the bot's messages in the chat

vars == <<now, users, payments, tariffs, logs, xui_configured, req, reply, nreq,
          fsm, answer, keyboards>>

(* ------------------------------ rows ---------------------------------- *)
\* the chat has no FSM state (state.clear()), and the bot has said nothing
NoState == "none"
NoAnswer == [kind |-> "none", days |-> 0, price |-> 0, duration_days |-> 0]

NoLinks == [email |-> NoId, expiry_time |-> 0, results |-> <<>>]

NoUser == [telegram_id |-> NoId, subscription_active |-> FALSE,
           subscription_end_date |-> NoDate, total_purchases |-> 0,
           renewal_count |-> 0, config_links |-> NoLinks]

NewUser(tg) == [NoUser EXCEPT !.telegram_id = tg]

NoPayment == [user_id |-> NoId, amount |-> 0, status |-> NoStatus,
              tariff_id |-> NoId, paid_at |-> NoDate]

IdleFrame == [pc |-> "idle", payment_id |-> NoId, status |-> NoStatus,
              old_status |-> NoStatus, payment |-> NoPayment,
              user_id |-> NoId, loaded |-> NoUser, user |-> NoUser,
              tariff_id |-> NoId, days |-> 0, at |-> NoDate, activated |-> FALSE,
              provisioned |-> FALSE,
              todo |-> <<>>, results |-> <<>>, calls |-> <<>>,
              expiry_time |-> 0]

\* a new request is served by the first handler that is not busy
Free(h) == /\ req[h].pc = "idle"
           /\ \A g \in Handlers : g < h => req[g].pc # "idle"

(* --------------------------- pure helpers ------------------------------ *)
RECURSIVE SelectTokens(_)
\* [x for x in inbound_ids.split(',') if x.strip()]: blank tokens are dropped
SelectTokens(s) ==
    IF s = <<>> THEN <<>>
    ELSE IF Head(s) = BlankToken THEN SelectTokens(Tail(s))
         ELSE <<Head(s)>> \o SelectTokens(Tail(s))

\* int(x.strip()) raises ValueError on a non-numeric token
ParseFails(s) == \E i \in 1..Len(s) : s[i] = BadToken

\* the list the webhook hands to the provisioning client
ParseInboundIds(s) == SelectTokens(s)

\* WebhookNewEnd without stacking: the period always starts now
WebhookNewEnd_NoStacking(end, days, t) == t + days

\* expiry of the webhook activation (main.py 349-352)
WebhookNewEnd(end, days, t) ==
    IF end # NoDate /\ end > t THEN end + days ELSE t + days

\* expiry of the admin extension (main.py 174-177)
AdminNewEnd(end, days, t) ==
    IF end # NoDate /\ end > t THEN end + days ELSE t + days

\* XUIClient.calculate_expiry_timestamp: int(timestamp * 1000)
calculate_expiry_timestamp(days, t) == (t + days) * MsPerDay

\* ActivatedUser that forgets to add the price to total_purchases
ActivatedUser_NoTotal(u, tariff, t) ==
    [u EXCEPT !.subscription_end_date =
                  WebhookNewEnd(u.subscription_end_date, tariff.duration_days, t),
              !.subscription_active = TRUE,
              !.renewal_count = u.renewal_count + 1]

\* the user row as the webhook leaves it in its session (main.py 349-356)
ActivatedUser(u, tariff, t) ==
    [u EXCEPT !.subscription_end_date =
                  WebhookNewEnd(u.subscription_end_date, tariff.duration_days, t),
              !.subscription_active = TRUE,
              !.total_purchases = u.total_purchases + tariff.price,
              !.renewal_count = u.renewal_count + 1]

\* the user row as the admin extension leaves it (main.py 174-180)
ExtendedUser(u, days, t) ==
    [u EXCEPT !.subscription_end_date = AdminNewEnd(u.subscription_end_date, days, t),
              !.subscription_active = TRUE,
              !.renewal_count = u.renewal_count + 1]

\* one entry of the provisioning result list
Result(inbound_id, status) == [inbound_id |-> inbound_id, status |-> status]

\* one remote call made to the panel
Call(op, inbound_id, ok) == [op |-> op, inbound_id |-> inbound_id, ok |-> ok]

\* the dict create_or_update_client returns
ResultBlob(email, expiry_time, results) ==
    [email |-> email, expiry_time |-> expiry_time, results |-> results]

\* log_action that writes one row however often the handler calls it
log_action_Once(l, level, n) == l + 1

\* log_action called n times: n rows added to logs (the level and the
\* message are not kept)
log_action(l, level, n) == l + n

(* ------------------------- session and commit -------------------------- *)
\* CommitPayment that stamps paid_at whatever the status is
CommitPayment_StampsEveryStatus(ps, f) ==
    IF f.payment_id \in DOMAIN ps
    THEN [ps EXCEPT ![f.payment_id].status = f.payment.status,
                    ![f.payment_id].paid_at = f.at]
    ELSE ps

\* db.commit() of the session's Payment: UPDATE of the columns it assigned
CommitPayment(ps, f) ==
    IF f.payment_id \in DOMAIN ps
    THEN [ps EXCEPT ![f.payment_id].status = f.payment.status,
                    ![f.payment_id].paid_at =
                        IF f.status = "succeeded" THEN f.payment.paid_at ELSE @]
    ELSE ps

\* CommitUser that rolls the user row back when an endpoint ended in error
CommitUser_RollbackOnError(us, f) ==
    IF /\ f.activated /\ f.user_id \in DOMAIN us
       /\ \A i \in 1..Len(f.results) : f.results[i].status # "error"
    THEN [us EXCEPT ![f.user_id].subscription_end_date = f.user.subscription_end_date,
                    ![f.user_id].subscription_active = f.user.subscription_active,
                    ![f.user_id].total_purchases = f.user.total_purchases,
                    ![f.user_id].renewal_count = f.user.renewal_count,
                    ![f.user_id].config_links =
                        IF f.provisioned THEN f.user.config_links ELSE @]
    ELSE us

\* db.commit() of the session's User: UPDATE of the columns it assigned
CommitUser(us, f) ==
    IF f.activated /\ f.user_id \in DOMAIN us
    THEN [us EXCEPT ![f.user_id].subscription_end_date = f.user.subscription_end_date,
                    ![f.user_id].subscription_active = f.user.subscription_active,
                    ![f.user_id].total_purchases = f.user.total_purchases,
                    ![f.user_id].renewal_count = f.user.renewal_count,
                    ![f.user_id].config_links =
                        IF f.provisioned THEN f.user.config_links ELSE @]
    ELSE us

(* ------------------------------- Init ---------------------------------- *)
\* the Payment row of a new intent (main.py 304-310)
NewPayment(uid, tariff_id, price) ==
    [user_id |-> uid, amount |-> price, status |-> "pending",
     tariff_id |-> tariff_id, paid_at |-> NoDate]

\* the ledger as the first /payments/create leaves it: one account, its user
\* row, one pending payment for a tariff of the table, one log row
Init ==
    /\ now = 0
    /\ tariffs = InitTariffs
    /\ users = (1 :> NewUser(1))
    /\ \E t \in DOMAIN InitTariffs :
           payments = (1 :> NewPayment(1, t, InitTariffs[t].price))
    /\ logs = 1
    /\ xui_configured \in BOOLEAN
    /\ req = [h \in Handlers |-> IdleFrame]
    /\ reply = "none"
    /\ fsm = NoState
    /\ answer = NoAnswer
    /\ keyboards = <<>>
    /\ nreq = 0

\* the clock advances between the steps of the handlers
Tick ==
    /\ now < MaxTime
    /\ now' = now + 1
    /\ UNCHANGED <<users, payments, tariffs, logs, xui_configured, req, reply, nreq, fsm, answer, keyboards>>

(* ------------------- POST /payments/yookassa/webhook ------------------- *)
\* the session after the Payment row was found and changed (main.py 333-341)
PaymentLoaded(payment_id, status, row, t) ==
    [IdleFrame EXCEPT !.payment_id = payment_id, !.status = status, !.at = t,
                      !.old_status = row.status,
                      !.payment = [row EXCEPT !.status = status,
                                              !.paid_at = IF status = "succeeded"
                                                          THEN t ELSE @],
                      !.user_id = row.user_id, !.tariff_id = row.tariff_id]

\* the handler's answer to a notification for a payment that is not stored,
\* answered as if the payment were an error of the caller
UnknownPaymentReply_NotFound == "404"

\* the handler's answer to a notification for a payment that is not stored
\* (main.py 336)
UnknownPaymentReply == "ok"

\* the session after the User row was changed (main.py 344-356)
UserActivated(f, u, tariff, t) ==
    [f EXCEPT !.loaded = u, !.user = ActivatedUser(u, tariff, t),
              !.days = tariff.duration_days, !.activated = TRUE]

\* the handler up to its first await on the panel, or to its return when it
\* makes no panel call (main.py 322-377)
yookassa_webhook(h, payment_id, status) ==
    /\ Free(h)
    /\ nreq < MaxRequests
    /\ nreq' = nreq + 1
    /\ UNCHANGED <<now, tariffs, xui_configured, fsm, answer, keyboards>>
    /\ IF payment_id = NoId \/ status = NoStatus
       THEN \* 329-330: HTTPException(400), caught at 375: logged, answered 500
            /\ logs' = log_action(logs, "ERROR", 1)
            /\ reply' = "500"
            /\ UNCHANGED <<users, payments, req>>
       ELSE IF payment_id \notin DOMAIN payments
       THEN \* 334-336
            /\ logs' = log_action(logs, "WARNING", 1)
            /\ reply' = UnknownPaymentReply
            /\ UNCHANGED <<users, payments, req>>
       ELSE
         LET row == payments[payment_id]
             f1 == PaymentLoaded(payment_id, status, row, now)
             found == status = "succeeded" /\ row.user_id \in DOMAIN users
                                           /\ row.tariff_id \in DOMAIN tariffs
         IN
         IF ~found
         THEN \* 369-373: status (and paid_at) committed, one log row
              /\ payments' = CommitPayment(payments, f1)
              /\ logs' = log_action(logs, "INFO", 1)
              /\ reply' = "ok"
              /\ UNCHANGED <<users, req>>
         ELSE
           LET tariff == tariffs[row.tariff_id]
               f2 == UserActivated(f1, users[row.user_id], tariff, now)
           IN
           IF ~xui_configured
           THEN \* 365-373: commit, two log rows
                /\ payments' = CommitPayment(payments, f2)
                /\ users' = CommitUser(users, f2)
                /\ logs' = log_action(logs, "INFO", 2)
                /\ reply' = "ok"
                /\ UNCHANGED req
           ELSE IF ParseFails(SelectTokens(tariff.inbound_ids))
           THEN \* 360 raises ValueError, caught at 375: log_action commits the
                \* session with the changes made so far, then 500
                /\ payments' = CommitPayment(payments, f2)
                /\ users' = CommitUser(users, f2)
                /\ logs' = log_action(logs, "ERROR", 1)
                /\ reply' = "500"
                /\ UNCHANGED req
           ELSE \* 360-362: into create_or_update_client (xui_client.py 107-112)
                LET ids == ParseInboundIds(tariff.inbound_ids) IN
                /\ req' = [req EXCEPT ![h] =
                      [f2 EXCEPT !.todo = ids,
                                 !.expiry_time = calculate_expiry_timestamp(tariff.duration_days, now),
                                 !.pc = IF ids = <<>> THEN "exit" ELSE "add"]]
                /\ UNCHANGED <<users, payments, logs, reply>>

\* NextInbound that leaves an inbound whose calls both failed out of the list
NextInbound_DropsErrors(f, status, call) ==
    [f EXCEPT !.results = IF status = "error" THEN @
                          ELSE Append(@, Result(Head(f.todo), status)),
              !.calls = Append(@, call),
              !.todo = Tail(@),
              !.pc = IF Tail(f.todo) = <<>> THEN "exit" ELSE "add"]

\* the frame after the loop body has appended a result for the current inbound
NextInbound(f, status, call) ==
    [f EXCEPT !.results = Append(@, Result(Head(f.todo), status)),
              !.calls = Append(@, call),
              !.todo = Tail(@),
              !.pc = IF Tail(f.todo) = <<>> THEN "exit" ELSE "add"]

\* add_client whose failure is recorded as an error at once, update not tried
add_client_NoFallback(h, ok) ==
    /\ req[h].pc = "add"
    /\ LET f == req[h]
           call == Call("add", Head(f.todo), ok) IN
       req' = [req EXCEPT ![h] = NextInbound(f, IF ok THEN "created" ELSE "error", call)]
    /\ UNCHANGED <<now, users, payments, tariffs, logs, xui_configured, reply, nreq, fsm, answer, keyboards>>

\* await self.add_client(...) returns or raises (xui_client.py 113-117)
add_client(h, ok) ==
    /\ req[h].pc = "add"
    /\ LET f == req[h]
           call == Call("add", Head(f.todo), ok) IN
       req' = [req EXCEPT ![h] =
                 IF ok THEN NextInbound(f, "created", call)
                 ELSE [f EXCEPT !.pc = "update", !.calls = Append(@, call)]]
    /\ UNCHANGED <<now, users, payments, tariffs, logs, xui_configured, reply, nreq, fsm, answer, keyboards>>

\* await self.update_client(...) returns or raises (xui_client.py 118-123)
update_client(h, ok) ==
    /\ req[h].pc = "update"
    /\ LET f == req[h]
           call == Call("update", Head(f.todo), ok) IN
       req' = [req EXCEPT ![h] = NextInbound(f, IF ok THEN "updated" ELSE "error", call)]
    /\ UNCHANGED <<now, users, payments, tariffs, logs, xui_configured, reply, nreq, fsm, answer, keyboards>>

\* Provisioned that keeps the stored blob when an endpoint ended in error
Provisioned_KeepsBlobOnError(f) ==
    [f EXCEPT !.user.config_links =
                  IF \E i \in 1..Len(f.results) : f.results[i].status = "error"
                  THEN @
                  ELSE ResultBlob(f.loaded.telegram_id, f.expiry_time, f.results),
              !.provisioned = TRUE]

\* the session when create_or_update_client has returned (main.py 362-363)
Provisioned(f) ==
    [f EXCEPT !.user.config_links = ResultBlob(f.loaded.telegram_id, f.expiry_time, f.results),
              !.provisioned = TRUE]

\* create_or_update_client returns; the rest of the handler (main.py 363-373)
webhook_finish(h) ==
    /\ req[h].pc = "exit"
    /\ payments' = CommitPayment(payments, Provisioned(req[h]))
    /\ users' = CommitUser(users, Provisioned(req[h]))
    /\ logs' = log_action(logs, "INFO", 2)
    /\ reply' = "ok"
    /\ req' = [req EXCEPT ![h] = IdleFrame]
    /\ UNCHANGED <<now, tariffs, xui_configured, nreq, fsm, answer, keyboards>>

(* ---------------------- PUT /users/{user_id}/extend -------------------- *)
extend_user_subscription(user_id, days) ==
    /\ nreq < MaxRequests
    /\ nreq' = nreq + 1
    /\ UNCHANGED <<now, payments, tariffs, xui_configured, req, fsm, answer, keyboards>>
    /\ IF user_id \notin DOMAIN users
       THEN \* 171-172
            /\ reply' = "404"
            /\ UNCHANGED <<users, logs>>
       ELSE \* 174-184
            /\ users' = [users EXCEPT ![user_id] = ExtendedUser(@, days, now)]
            /\ logs' = log_action(logs, "INFO", 1)
            /\ reply' = "ok"

(* -------------------------- POST /payments/create ---------------------- *)
\* a lookup that never finds the account
UserByTelegram_NeverFound(us, tg) == NoId

\* db.query(User).filter(User.telegram_id == telegram_id).first()
UserByTelegram(us, tg) ==
    IF \E u \in DOMAIN us : us[u].telegram_id = tg
    THEN CHOOSE u \in DOMAIN us : us[u].telegram_id = tg
    ELSE NoId

\* the primary key the users table gives its next row: one more than the
\* highest id in the table
NextUserId(us) ==
    IF DOMAIN us = {} THEN 1
    ELSE 1 + CHOOSE m \in DOMAIN us : \A u \in DOMAIN us : u <= m

\* the identifier the gateway gives the next payment intent
NextPaymentId(ps) == Cardinality(DOMAIN ps) + 1

\* what the handler does to the ledger, whoever sent the request
PaymentCreated(tariff_id, telegram_id, gateway_ok) ==
    /\ nreq < MaxRequests
    /\ Cardinality(DOMAIN payments) < MaxPayments
    /\ nreq' = nreq + 1
    /\ UNCHANGED <<now, tariffs, xui_configured, req>>
    /\ IF tariff_id \notin DOMAIN tariffs
       THEN \* 288-290
            /\ reply' = "404"
            /\ UNCHANGED <<users, payments, logs>>
       ELSE
         LET known == UserByTelegram(users, telegram_id)
             uid == IF known = NoId THEN NextUserId(users) ELSE known
         IN
         \* 293-298
         /\ users' = IF known = NoId THEN users @@ (uid :> NewUser(telegram_id)) ELSE users
         /\ IF ~gateway_ok
            THEN \* 301 raises: the request fails after the user row is committed
                 /\ reply' = "500"
                 /\ UNCHANGED <<payments, logs>>
            ELSE \* 304-320
                 /\ payments' = payments @@
                        (NextPaymentId(payments) :>
                             NewPayment(uid, tariff_id, tariffs[tariff_id].price))
                 /\ logs' = log_action(logs, "INFO", 1)
                 /\ reply' = "ok"

\* the request sent by a client other than the bot's dialogue
create_payment(tariff_id, telegram_id, gateway_ok) ==
    /\ PaymentCreated(tariff_id, telegram_id, gateway_ok)
    /\ UNCHANGED <<fsm, answer, keyboards>>

(* ------------------------------ behaviours ----------------------------- *)
\* inputs of the requests
WebhookPaymentIds == PaymentIds \cup {NoId}
WebhookInputStatuses == WebhookStatuses \cup {NoStatus}
TariffInputs == DOMAIN InitTariffs \cup {Cardinality(DOMAIN InitTariffs) + 1}
UserInputs == UserIds

Next ==
    \/ Tick
    \/ \E h \in Handlers, p \in WebhookPaymentIds, s \in WebhookInputStatuses :
           yookassa_webhook(h, p, s)
    \/ \E h \in Handlers, ok \in BOOLEAN : add_client(h, ok)
    \/ \E h \in Handlers, ok \in BOOLEAN : update_client(h, ok)
    \/ \E h \in Handlers : webhook_finish(h)
    \/ \E u \in UserInputs, d \in ExtendDays : extend_user_subscription(u, d)
    \/ \E t \in TariffInputs, tg \in TelegramIds, ok \in BOOLEAN :
           create_payment(t, tg, ok)

Spec == Init /\ [][Next]_vars

(* ---------------- a second specification: one notification ------------- *)
\* the same succeeded notification for the payment of Init, delivered to
\* every handler that is free, and nothing else
NextSameNotification ==
    \/ Tick
    \/ \E h \in Handlers : yookassa_webhook(h, 1, "succeeded")
    \/ \E h \in Handlers, ok \in BOOLEAN : add_client(h, ok)
    \/ \E h \in Handlers, ok \in BOOLEAN : update_client(h, ok)
    \/ \E h \in Handlers : webhook_finish(h)

SpecSameNotification == Init /\ [][NextSameNotification]_vars

(* -------------- a third specification: one provisioning call ----------- *)
\* the inbound_ids texts a tariff may carry: every list of at most MaxInbounds
\* tokens, each a blank, a non-numeric text or one of two ids (ids may repeat)
InboundTokens == {BlankToken, BadToken, 1, 2}
InboundTexts == UNION {[1..n -> InboundTokens] : n \in 0..MaxInbounds}

\* the ledger of Init with the panel configured and one tariff, whose
\* inbound_ids is any of the texts; one request is left to serve
InitProvision ==
    /\ now = 0
    /\ \E txt \in InboundTexts :
           tariffs = (1 :> [price |-> 299, duration_days |-> 2,
                            inbound_ids |-> txt, active |-> TRUE])
    /\ users = (1 :> NewUser(1))
    /\ payments = (1 :> NewPayment(1, 1, 299))
    /\ logs = 1
    /\ xui_configured = TRUE
    /\ req = [h \in Handlers |-> IdleFrame]
    /\ reply = "none"
    /\ fsm = NoState
    /\ answer = NoAnswer
    /\ keyboards = <<>>
    /\ nreq = MaxRequests - 1

\* one succeeded notification, and the panel calls it leads to
NextProvision ==
    \/ yookassa_webhook(1, 1, "succeeded")
    \/ \E ok \in BOOLEAN : add_client(1, ok)
    \/ \E ok \in BOOLEAN : update_client(1, ok)
    \/ webhook_finish(1)

SpecProvision == InitProvision /\ [][NextProvision]_vars

(* ------------- a fourth specification: notifications only ------------- *)
\* inbound_ids texts that lead a notification through each of its paths:
\* no panel call, a parse failure, one endpoint, two endpoints
DeliveryTexts == {<<>>, <<BadToken>>, <<1>>, <<1, 2>>}

\* the ledger of InitProvision with the panel configured or not, and every
\* request still to serve
InitDelivery ==
    /\ now = 0
    /\ \E txt \in DeliveryTexts :
           tariffs = (1 :> [price |-> 299, duration_days |-> 2,
                            inbound_ids |-> txt, active |-> TRUE])
    /\ users = (1 :> NewUser(1))
    /\ payments = (1 :> NewPayment(1, 1, 299))
    /\ logs = 1
    /\ xui_configured \in BOOLEAN
    /\ req = [h \in Handlers |-> IdleFrame]
    /\ reply = "none"
    /\ fsm = NoState
    /\ answer = NoAnswer
    /\ keyboards = <<>>
    /\ nreq = 0

\* every notification the gateway may deliver, and the panel calls they
\* lead to
NextDelivery ==
    \/ \E h \in Handlers, p \in WebhookPaymentIds, s \in WebhookInputStatuses :
           yookassa_webhook(h, p, s)
    \/ \E h \in Handlers, ok \in BOOLEAN : add_client(h, ok)
    \/ \E h \in Handlers, ok \in BOOLEAN : update_client(h, ok)
    \/ \E h \in Handlers : webhook_finish(h)

SpecDelivery == InitDelivery /\ [][NextDelivery]_vars

(* ------------- a fifth specification: the administrator --------------- *)
\* the primary key the tariffs table gives its next row
NextTariffId(ts) == Cardinality(DOMAIN ts) + 1

\* POST /tariffs: the row is stored as given, nothing is validated
create_tariff(price, duration_days, inbound_ids) ==
    /\ nreq < MaxRequests
    /\ nreq' = nreq + 1
    /\ tariffs' = tariffs @@
           (NextTariffId(tariffs) :>
                [price |-> price, duration_days |-> duration_days,
                 inbound_ids |-> inbound_ids, active |-> TRUE])
    /\ logs' = log_action(logs, "INFO", 1)
    /\ reply' = "ok"
    /\ UNCHANGED <<now, users, payments, xui_configured, req, fsm, answer, keyboards>>

\* the payments that reference the user
PaymentsOf(ps, user_id) == {p \in DOMAIN ps : ps[p].user_id = user_id}

\* DELETE /users/{user_id}: the row is deleted; when payments reference it
\* and the database enforces payments.user_id, the commit fails instead
delete_user(user_id, fk_enforced) ==
    /\ nreq < MaxRequests
    /\ nreq' = nreq + 1
    /\ UNCHANGED <<now, payments, tariffs, xui_configured, req, fsm, answer, keyboards>>
    /\ IF user_id \notin DOMAIN users
       THEN \* 193-194
            /\ reply' = "404"
            /\ UNCHANGED <<users, logs>>
       ELSE IF fk_enforced /\ PaymentsOf(payments, user_id) # {}
       THEN \* 197 raises IntegrityError: nothing is written
            /\ reply' = "500"
            /\ UNCHANGED <<users, logs>>
       ELSE \* 196-200
            /\ users' = [u \in DOMAIN users \ {user_id} |-> users[u]]
            /\ logs' = log_action(logs, "INFO", 1)
            /\ reply' = "ok"

\* the rows create_tariff stores: any price, any number of days
TariffPrices == {-50, 299}
TariffDays == {-1, 0, 2}
TariffRows ==
    [price : TariffPrices, duration_days : TariffDays,
     inbound_ids : {<<1>>}, active : {TRUE}]

\* the ledger after the administrator created one tariff, before or after a
\* first payment intent was made for it (the gateway has made an intent only
\* for a positive amount); the panel is not configured
InitAdmin ==
    /\ now = 0
    /\ \E row \in TariffRows, intent \in BOOLEAN :
           /\ tariffs = (1 :> row)
           /\ IF intent /\ row.price > 0
              THEN /\ users = (1 :> NewUser(1))
                   /\ payments = (1 :> NewPayment(1, 1, row.price))
                   /\ logs = 2
              ELSE /\ users = <<>>
                   /\ payments = <<>>
                   /\ logs = 1
    /\ xui_configured = FALSE
    /\ req = [h \in Handlers |-> IdleFrame]
    /\ reply = "none"
    /\ fsm = NoState
    /\ answer = NoAnswer
    /\ keyboards = <<>>
    /\ nreq = 0

NextAdmin ==
    \/ Tick
    \/ \E h \in Handlers, p \in WebhookPaymentIds, s \in WebhookInputStatuses :
           yookassa_webhook(h, p, s)
    \/ \E u \in UserInputs, d \in ExtendDays : extend_user_subscription(u, d)
    \/ \E t \in TariffInputs, tg \in TelegramIds, ok \in BOOLEAN :
           create_payment(t, tg, ok)
    \/ \E row \in TariffRows :
           create_tariff(row.price, row.duration_days, row.inbound_ids)
    \/ \E u \in UserInputs, fk \in BOOLEAN : delete_user(u, fk)

SpecAdmin == InitAdmin /\ [][NextAdmin]_vars

(* --------------- a sixth specification: two purchases ----------------- *)
\* the ledger after one account made two payment intents, each for any of
\* the tariffs; the panel is configured or not
InitTwoPurchases ==
    /\ now = 0
    /\ tariffs = InitTariffs
    /\ users = (1 :> NewUser(1))
    /\ \E t1 \in DOMAIN InitTariffs, t2 \in DOMAIN InitTariffs :
           payments = (1 :> NewPayment(1, t1, InitTariffs[t1].price)) @@
                      (2 :> NewPayment(1, t2, InitTariffs[t2].price))
    /\ logs = 2
    /\ xui_configured \in BOOLEAN
    /\ req = [h \in Handlers |-> IdleFrame]
    /\ reply = "none"
    /\ fsm = NoState
    /\ answer = NoAnswer
    /\ keyboards = <<>>
    /\ nreq = 0

\* the succeeded notifications of the two payments, and the panel calls they
\* lead to
NextTwoPurchases ==
    \/ Tick
    \/ \E h \in Handlers, p \in {1, 2} : yookassa_webhook(h, p, "succeeded")
    \/ \E h \in Handlers, ok \in BOOLEAN : add_client(h, ok)
    \/ \E h \in Handlers, ok \in BOOLEAN : update_client(h, ok)
    \/ \E h \in Handlers : webhook_finish(h)

SpecTwoPurchases == InitTwoPurchases /\ [][NextTwoPurchases]_vars

(* ------------- a seventh specification: the bot's dialogue ------------- *)
\* A message text is a sequence of characters; NoText is the text of a
\* message that carries none (a photo, a sticker): message.text is None.
NoText == <<"None">>

\* the text of the reply-keyboard button of buy_subscription
BuyButton == <<"[buy]">>

\* the text of the reply-keyboard button of extend_subscription
ExtendButton == <<"[extend]">>

DigitValue ==
    ("0" :> 0) @@ ("1" :> 1) @@ ("2" :> 2) @@ ("3" :> 3) @@ ("4" :> 4) @@
    ("5" :> 5) @@ ("6" :> 6) @@ ("7" :> 7) @@ ("8" :> 8) @@ ("9" :> 9)

IsDigit(c) == c \in DOMAIN DigitValue

RECURSIVE Strip(_)
\* str.strip(): the text without the blanks at its ends
Strip(s) ==
    IF s = <<>> THEN s
    ELSE IF Head(s) = " " THEN Strip(Tail(s))
    ELSE IF s[Len(s)] = " " THEN Strip(SubSeq(s, 1, Len(s) - 1))
    ELSE s

\* the digits of an integer literal: digits, with single underscores between
IsLiteral(s) ==
    /\ s # <<>>
    /\ IsDigit(s[1]) /\ IsDigit(s[Len(s)])
    /\ \A i \in 1..Len(s) :
          \/ IsDigit(s[i])
          \/ s[i] = "_" /\ IsDigit(s[i - 1]) /\ IsDigit(s[i + 1])

RECURSIVE LiteralValue(_, _)
\* the decimal value of a literal, read from the left with accumulator acc
LiteralValue(s, acc) ==
    IF s = <<>> THEN acc
    ELSE IF Head(s) = "_" THEN LiteralValue(Tail(s), acc)
    ELSE LiteralValue(Tail(s), 10 * acc + DigitValue[Head(s)])

\* int(message.text): a value, or the exception it raises
int(text) ==
    IF text = NoText THEN [raised |-> "TypeError", value |-> 0]
    ELSE LET t == Strip(text)
             signed == t # <<>> /\ Head(t) \in {"+", "-"}
             body == IF signed THEN Tail(t) ELSE t
         IN
         IF ~IsLiteral(body) THEN [raised |-> "ValueError", value |-> 0]
         ELSE [raised |-> "none",
               value |-> IF signed /\ Head(t) = "-"
                         THEN 0 - LiteralValue(body, 0)
                         ELSE LiteralValue(body, 0)]

RECURSIVE Listing(_, _)
\* the rows of GET /tariffs, in the order of their ids, from id i on
Listing(ts, i) ==
    IF i \notin DOMAIN ts THEN <<>>
    ELSE (IF ts[i].active THEN <<ts[i]>> ELSE <<>>) \o Listing(ts, i + 1)

\* get_tariffs(): the list of GET /tariffs when the backend answers 200,
\* None otherwise (api_request, line 41); None is the empty list here, the
\* handler tests the value for truth only
get_tariffs(served) == IF served THEN Listing(tariffs, 1) ELSE <<>>

Said(kind) == [NoAnswer EXCEPT !.kind = kind]

\* the button is handled in every FSM state: the handler is registered
\* before process_extend_days and has no state filter
extend_subscription ==
    /\ answer' = Said("ask_days")
    /\ fsm' = "waiting_for_days"
    /\ UNCHANGED <<now, users, payments, tariffs, logs, xui_configured, req,
                   reply, nreq, keyboards>>

\* the day-count window of process_extend_days that lets 0 through
ValidDays_FromZero(days) == ~(days < 0 \/ days > 365)

\* the day-count window of process_extend_days (line 162)
ValidDays(days) == ~(days < 1 \/ days > 365)

\* a message received while the chat is in ExtendState.waiting_for_days
process_extend_days(text, served) ==
    /\ fsm = "waiting_for_days"
    /\ text \notin {BuyButton, ExtendButton}
    /\ UNCHANGED <<now, users, payments, tariffs, logs, xui_configured, req,
                   reply, nreq, keyboards>>
    /\ LET r == int(text)
           listing == get_tariffs(served)
       IN
       IF r.raised = "TypeError"
       THEN \* 161: not caught by `except ValueError`; state.clear() not reached
            /\ answer' = Said("exception")
            /\ fsm' = fsm
       ELSE IF r.raised = "ValueError" \/ ~ValidDays(r.value)
       THEN \* 161-163, 183-186
            /\ answer' = Said("invalid_days")
            /\ fsm' = NoState
       ELSE IF listing = <<>>
       THEN \* 180-181, 186
            /\ answer' = Said("no_tariffs")
            /\ fsm' = NoState
       ELSE IF listing[1].duration_days = 0
       THEN \* 169: ZeroDivisionError, not caught; state.clear() not reached
            /\ answer' = Said("exception")
            /\ fsm' = fsm
       ELSE \* 169-179, 186
            /\ answer' = [kind |-> "offer", days |-> r.value,
                          price |-> listing[1].price,
                          duration_days |-> listing[1].duration_days]
            /\ fsm' = NoState

\* the texts a user may send as a day count
BotTexts ==
    { <<"0">>, <<"1">>, <<"3", "6", "5">>, <<"3", "6", "6">>, <<"4", "0", "0">>,
      <<"-", "5">>, <<"a", "b", "c">>, <<>>, <<" ", "7", " ">>, <<"+", "3">>,
      <<"1", "_", "0">>, <<"1", "2", ".", "5">>, <<"7", " ", "d">>,
      NoText, ExtendButton }

\* the tariffs tables the administrator may have made: at most two rows
TariffTables ==
    {<<>>} \cup {<<r>> : r \in TariffRows}
           \cup {<<r1, r2>> : r1 \in TariffRows, r2 \in TariffRows}

InitBot ==
    /\ now = 0
    /\ tariffs \in TariffTables
    /\ users = <<>>
    /\ payments = <<>>
    /\ logs = Len(tariffs)
    /\ xui_configured = FALSE
    /\ req = [h \in Handlers |-> IdleFrame]
    /\ reply = "none"
    /\ nreq = 0
    /\ fsm = NoState
    /\ answer = NoAnswer
    /\ keyboards = <<>>

NextBot ==
    \/ extend_subscription
    \/ \E text \in BotTexts, served \in BOOLEAN : process_extend_days(text, served)

SpecBot == InitBot /\ [][NextBot]_vars

(* ----------- an eighth specification: the purchase dialogue ------------ *)
\* the messages with an inline keyboard kept in the model of the chat
MaxKeyboards == 2

\* callback_query.from_user.id: the account of the chat
ChatAccount == CHOOSE tg \in TelegramIds : \A other \in TelegramIds : tg <= other

\* an inline keyboard: the tariffs it offers (callback data tariff_<id>) and
\* the payment it lets check (callback data check_payment_<id>)
ListingKeyboard(ids) == [tariff_ids |-> ids, payment_id |-> NoId]
PayKeyboard(payment_id) == [tariff_ids |-> {}, payment_id |-> payment_id]

\* the ids of the rows of get_tariffs(), one button each (lines 83-89)
OfferedIds(served) ==
    IF served THEN {i \in DOMAIN tariffs : tariffs[i].active} ELSE {}

\* edit_text without reply_markup: message i loses its keyboard
Without(kbs, i) == SubSeq(kbs, 1, i - 1) \o SubSeq(kbs, i + 1, Len(kbs))

\* the button is handled in every FSM state: no state filter
buy_subscription(served) ==
    /\ get_tariffs(served) # <<>> => Len(keyboards) < MaxKeyboards
    /\ UNCHANGED <<now, users, payments, tariffs, logs, xui_configured, req,
                   reply, nreq>>
    /\ IF get_tariffs(served) = <<>>
       THEN \* 78-80: returns before set_state
            /\ answer' = Said("no_tariffs")
            /\ UNCHANGED <<fsm, keyboards>>
       ELSE \* 82-92
            /\ answer' = Said("choose_tariff")
            /\ keyboards' = Append(keyboards, ListingKeyboard(OfferedIds(served)))
            /\ fsm' = "waiting_for_tariff"

\* a press of the button tariff_id of message i, in every FSM state: the
\* callback handler has no state filter.  `accepted`: POST /payments/create
\* reaches the backend's handler; otherwise api_request returns None.
process_tariff_selection(i, tariff_id, accepted, gateway_ok) ==
    /\ i \in 1..Len(keyboards)
    /\ tariff_id \in keyboards[i].tariff_ids
    /\ IF accepted
       THEN PaymentCreated(tariff_id, ChatAccount, gateway_ok)
       ELSE UNCHANGED <<now, users, payments, tariffs, logs, xui_configured,
                        req, reply, nreq>>
    /\ IF accepted /\ reply' = "ok"
       THEN \* 101-112
            /\ answer' = [Said("pay") EXCEPT !.price = tariffs[tariff_id].price]
            /\ keyboards' = [keyboards EXCEPT
                                ![i] = PayKeyboard(NextPaymentId(payments))]
       ELSE \* 113-114
            /\ answer' = Said("payment_error")
            /\ keyboards' = Without(keyboards, i)
    \* 116: the handler never calls set_state or clear
    /\ fsm' = fsm

\* a press of the check button of message i: no API call, no FSM context
check_payment(i) ==
    /\ i \in 1..Len(keyboards)
    /\ keyboards[i].payment_id # NoId
    /\ answer' = Said("checking")
    /\ keyboards' = Without(keyboards, i)
    /\ fsm' = fsm
    /\ UNCHANGED <<now, users, payments, tariffs, logs, xui_configured, req,
                   reply, nreq>>

InitDialogue ==
    /\ now = 0
    /\ tariffs = InitTariffs
    /\ users = <<>>
    /\ payments = <<>>
    /\ logs = 0
    /\ xui_configured = FALSE
    /\ req = [h \in Handlers |-> IdleFrame]
    /\ reply = "none"
    /\ nreq = 0
    /\ fsm = NoState
    /\ answer = NoAnswer
    /\ keyboards = <<>>

NextDialogue ==
    \/ \E served \in BOOLEAN : buy_subscription(served)
    \/ \E i \in 1..MaxKeyboards, tariff_id \in DOMAIN InitTariffs,
          accepted \in BOOLEAN, gateway_ok \in BOOLEAN :
          process_tariff_selection(i, tariff_id, accepted, gateway_ok)
    \/ \E i \in 1..MaxKeyboards : check_payment(i)
    \/ extend_subscription
    \/ \E text \in BotTexts, served \in BOOLEAN : process_extend_days(text, served)

SpecDialogue == InitDialogue /\ [][NextDialogue]_vars

(* ------------------------- vocabulary of the claims -------------------- *)
\* the handler h answers, in this step, the notification (p, s) for a stored
\* payment: either at once, or after its panel calls
AnswersAtOnce(h, p, s) ==
    /\ p \in DOMAIN payments
    /\ yookassa_webhook(h, p, s)
    /\ req'[h].pc = "idle"

AnswersAfterPanel(h, p, s) ==
    /\ req[h].payment_id = p
    /\ req[h].status = s
    /\ webhook_finish(h)

\* the ledger fields of a user row
Ledger(u) == <<u.subscription_end_date, u.subscription_active,
               u.total_purchases, u.renewal_count>>

\* extend(currentEnd, addDays, now) of the specification
extend(currentEnd, addDays, t) ==
    CASE currentEnd = NoDate -> t + addDays
      [] currentEnd # NoDate /\ currentEnd =< t -> t + addDays
      [] currentEnd # NoDate /\ currentEnd > t -> currentEnd + addDays

\* the terminal statuses of the specification
Terminal == {"succeeded", "canceled"}

AllIdle == \A h \in Handlers : req[h].pc = "idle"

(* ------------------------------- claims -------------------------------- *)
\* C1: a notification (p, s), s terminal, delivered when the stored status of
\* p is already s, leaves the Payment row and the owner's ledger fields as
\* they were.
C1_SecondDeliveryIsNoOp ==
    [][\A h \in Handlers, p \in PaymentIds, s \in Terminal :
         /\ (AnswersAtOnce(h, p, s) /\ payments[p].status = s)
               => /\ payments'[p] = payments[p]
                  /\ \A u \in DOMAIN users : Ledger(users'[u]) = Ledger(users[u])
         /\ (AnswersAfterPanel(h, p, s) /\ req[h].old_status = s)
               => /\ payments'[p] = payments[p]
                  /\ \A u \in DOMAIN users : Ledger(users'[u]) = Ledger(users[u])
      ]_vars

\* C2: when every delivery of the one succeeded notification has been
\* answered, renewal_count is 1 higher and total_purchases one tariff price
\* higher than before (both were 0).
C2_ActivatedExactlyOnce ==
    (AllIdle /\ nreq > 0) =>
        /\ users[1].renewal_count = 1
        /\ users[1].total_purchases = tariffs[payments[1].tariff_id].price

\* C3: once the stored status of a payment is succeeded or canceled, no step
\* changes it.
C3_StatusMonotone ==
    [][\A p \in DOMAIN payments :
          payments[p].status \in Terminal => payments'[p].status = payments[p].status
      ]_vars

\* C4: paid_at is absent while the payment is pending or canceled, and once
\* set it never changes.
C4_PaidAtWrittenOnce ==
    [][\A p \in DOMAIN payments :
          /\ payments'[p].status \in {"pending", "canceled"} => payments'[p].paid_at = NoDate
          /\ payments[p].paid_at # NoDate => payments'[p].paid_at = payments[p].paid_at
      ]_vars

\* C5: a succeeded notification for a payment already canceled changes no
\* user row and makes no panel call.
C5_NoActivationAfterCancel ==
    [][\A h \in Handlers, p \in DOMAIN payments :
          /\ (payments[p].status = "canceled" /\ yookassa_webhook(h, p, "succeeded"))
                => users' = users /\ req'[h].pc = "idle"
          /\ (AnswersAfterPanel(h, p, "succeeded") /\ req[h].old_status = "canceled")
                => users' = users
      ]_vars

\* the user row a succeeded notification works on, and the one it leaves:
\* in the ledger when the handler answers at once, in its session otherwise
ActivatesAt(h, p) ==
    /\ p \in DOMAIN payments
    /\ payments[p].user_id \in DOMAIN users
    /\ payments[p].tariff_id \in DOMAIN tariffs
    /\ yookassa_webhook(h, p, "succeeded")

LeftByWebhook(h, p) ==
    IF req'[h].pc = "idle" THEN users'[payments[p].user_id] ELSE req'[h].user

\* C6: the end date written by the webhook activation and by the admin
\* extension, for a positive day count d at time `now`, is currentEnd + d when
\* currentEnd is present and after now, and now + d otherwise.
C6_ExtensionArithmetic ==
    [][/\ \A h \in Handlers, p \in PaymentIds :
            ActivatesAt(h, p) =>
               LET old == users[payments[p].user_id].subscription_end_date
                   d == tariffs[payments[p].tariff_id].duration_days
                   new == LeftByWebhook(h, p).subscription_end_date
               IN  d > 0 =>
                      /\ (old # NoDate /\ old > now) => new = old + d
                      /\ (old = NoDate \/ old =< now) => new = now + d
       /\ \A u \in DOMAIN users, d \in ExtendDays :
            (d > 0 /\ extend_user_subscription(u, d)) =>
               LET old == users[u].subscription_end_date
                   new == users'[u].subscription_end_date
               IN  /\ (old # NoDate /\ old > now) => new = old + d
                   /\ (old = NoDate \/ old =< now) => new = now + d
      ]_vars

\* a purchase was stacked on an end date in the future (an end date this
\* late is out of reach of now + d)
C6_Witness ==
    \E u \in DOMAIN users :
        /\ users[u].subscription_end_date >= MaxTime + 3
        /\ users[u].total_purchases > 0

\* the ledger fields a succeeded notification received at time t leaves for a
\* user row u and a tariff
Expected(u, tariff, t) ==
    <<extend(u.subscription_end_date, tariff.duration_days, t), TRUE,
      u.total_purchases + tariff.price, u.renewal_count + 1>>

\* C7: a succeeded notification received at T for a pending payment whose user
\* and tariff exist leaves, when the handler has answered,
\* subscription_active = TRUE, subscription_end_date = extend(old, days, T),
\* total_purchases = old + price and renewal_count = old + 1.
C7_LedgerEffect ==
    [][\A h \in Handlers, p \in PaymentIds :
         /\ (AnswersAtOnce(h, p, "succeeded") /\ ActivatesAt(h, p)
                 /\ payments[p].status = "pending")
               => Ledger(users'[payments[p].user_id]) =
                     Expected(users[payments[p].user_id], tariffs[payments[p].tariff_id], now)
         /\ (AnswersAfterPanel(h, p, "succeeded") /\ req[h].old_status = "pending")
               => Ledger(users'[req[h].user_id]) =
                     Expected(req[h].loaded, tariffs[req[h].tariff_id], req[h].at)
      ]_vars

\* the scenario of the specification: a user never subscribed, one payment,
\* succeeded at T: active, end = T + days, total = price, renewal_count = 1
C7_Witness ==
    \E p \in DOMAIN payments :
        LET u == users[payments[p].user_id]
            tariff == tariffs[payments[p].tariff_id] IN
        /\ payments[p].status = "succeeded"
        /\ u.subscription_active
        /\ u.subscription_end_date = payments[p].paid_at + tariff.duration_days
        /\ u.total_purchases = tariff.price
        /\ u.renewal_count = 1

\* the inbound ids a handler in flight was asked to provision
Requested(f) == ParseInboundIds(tariffs[f.tariff_id].inbound_ids)

\* C8: create_or_update_client returns one result per requested inbound id,
\* in input order, each tagged created, updated or error.
C8_OneResultPerEndpoint ==
    \A h \in Handlers :
        LET f == req[h] IN
        /\ f.pc \in {"add", "update", "exit"} =>
              /\ Len(f.results) + Len(f.todo) = Len(Requested(f))
              /\ \A i \in 1..Len(f.results) :
                    /\ f.results[i].inbound_id = Requested(f)[i]
                    /\ f.results[i].status \in {"created", "updated", "error"}
        /\ f.pc = "exit" => Len(f.results) = Len(Requested(f))

\* the call has returned two results, the first an error
C8_Witness ==
    \E h \in Handlers :
        /\ req[h].pc = "exit"
        /\ Len(req[h].results) = 2
        /\ req[h].results[1].status = "error"
        /\ req[h].results[2].status = "created"

RECURSIVE CallsOf(_)
\* the panel calls the claim allows for a list of results: created is one
\* successful add; updated a failed add, then a successful update; error a
\* failed add, then a failed update
CallsOf(rs) ==
    IF rs = <<>> THEN <<>>
    ELSE LET r == Head(rs) IN
         (CASE r.status = "created" -> <<Call("add", r.inbound_id, TRUE)>>
            [] r.status = "updated" -> <<Call("add", r.inbound_id, FALSE),
                                         Call("update", r.inbound_id, TRUE)>>
            [] r.status = "error" -> <<Call("add", r.inbound_id, FALSE),
                                       Call("update", r.inbound_id, FALSE)>>)
         \o CallsOf(Tail(rs))

\* C9: per endpoint the result is created iff add succeeded (update is not
\* called), updated iff add failed and update succeeded, error iff both
\* failed: the calls made are exactly those of the results so far, plus a
\* failed add while the update is pending; and when the call returns every
\* requested endpoint has been attempted, whatever failed before it.
C9_CreateThenUpdate ==
    \A h \in Handlers :
        LET f == req[h] IN
        /\ f.calls = CallsOf(f.results) \o
                        (IF f.pc = "update"
                         THEN <<Call("add", Head(f.todo), FALSE)>> ELSE <<>>)
        /\ f.pc = "exit" =>
              /\ f.todo = <<>>
              /\ Len(f.results) = Len(Requested(f))

\* both calls failed at the first inbound, and the second was still updated
C9_Witness ==
    \E h \in Handlers :
        /\ req[h].pc = "exit"
        /\ Len(req[h].results) = 2
        /\ req[h].results[1].status = "error"
        /\ req[h].results[2].status = "updated"

\* C10: a succeeded notification on a pending payment, with any number of
\* endpoints ending in error, leaves the payment succeeded (paid_at set) and
\* the user's ledger fields updated in the ledger.
C10_NoRollbackOnProvisioningFailure ==
    [][\A h \in Handlers :
          LET f == req[h] IN
          (/\ webhook_finish(h)
           /\ f.status = "succeeded" /\ f.old_status = "pending"
           /\ \E i \in 1..Len(f.results) : f.results[i].status = "error")
          => /\ payments'[f.payment_id].status = "succeeded"
             /\ payments'[f.payment_id].paid_at = f.at
             /\ Ledger(users'[f.user_id]) = Ledger(f.user)
             /\ users'[f.user_id].renewal_count = f.loaded.renewal_count + 1
             /\ users'[f.user_id].total_purchases =
                   f.loaded.total_purchases + tariffs[f.tariff_id].price
      ]_vars

\* every endpoint ended in error, and the payment and the user are activated
C10_Witness ==
    \E p \in DOMAIN payments :
        LET u == users[payments[p].user_id] IN
        /\ payments[p].status = "succeeded"
        /\ u.subscription_active /\ u.renewal_count = 1
        /\ u.total_purchases = tariffs[payments[p].tariff_id].price
        /\ Len(u.config_links.results) = 2
        /\ \A i \in 1..2 : u.config_links.results[i].status = "error"

\* C11: after every activation that invoked provisioning, the user's
\* config_links is the list of results the panel client returned for that
\* activation, with its error entries, and not the blob stored before.
C11_ConfigLinksHoldResults ==
    [][\A h \in Handlers :
          LET f == req[h] IN
          webhook_finish(h)
          => users'[f.user_id].config_links =
                 ResultBlob(users[f.user_id].telegram_id, f.expiry_time, f.results)
      ]_vars

\* a second activation has replaced the first blob by results with an error
C11_Witness ==
    \E u \in DOMAIN users :
        /\ users[u].renewal_count = 2
        /\ Len(users[u].config_links.results) = 2
        /\ users[u].config_links.results[1].status = "error"
        /\ users[u].config_links.results[2].status = "updated"

\* C12: a well-formed notification whose payment is not stored is answered
\* with the acknowledgement, and changes no payment and no user.
C12_UnknownPaymentAcknowledged ==
    [][\A h \in Handlers, p \in WebhookPaymentIds, s \in WebhookInputStatuses :
          (/\ yookassa_webhook(h, p, s)
           /\ p # NoId /\ s # NoStatus
           /\ p \notin DOMAIN payments)
          => /\ reply' = "ok"
             /\ payments' = payments
             /\ users' = users
             /\ req' = req
      ]_vars

\* the first request was a notification for a payment that is not stored
C12_Witness ==
    /\ nreq = 1 /\ reply = "ok" /\ logs = 2 /\ AllIdle
    /\ DOMAIN payments = {1}
    /\ payments[1].status = "pending" /\ payments[1].paid_at = NoDate
    /\ users = (1 :> NewUser(1))

\* C13: a notification without payment id or without status is rejected with
\* a client error (4xx), and changes no payment and no user.
C13_MalformedRejected ==
    [][\A h \in Handlers, p \in WebhookPaymentIds, s \in WebhookInputStatuses :
          (yookassa_webhook(h, p, s) /\ (p = NoId \/ s = NoStatus))
          => /\ reply' = "400"
             /\ payments' = payments
             /\ users' = users
      ]_vars

\* C14: a canceled notification on a pending payment changes only the
\* payment's status: paid_at stays absent, no user changes, no panel call.
C14_CanceledOnPending ==
    [][\A h \in Handlers, p \in PaymentIds :
          (/\ p \in DOMAIN payments
           /\ payments[p].status = "pending"
           /\ yookassa_webhook(h, p, "canceled"))
          => /\ payments' = [payments EXCEPT ![p].status = "canceled"]
             /\ payments'[p].paid_at = NoDate
             /\ users' = users
             /\ req' = req
      ]_vars

\* the payment of a user that was never activated is canceled
C14_Witness ==
    \E p \in DOMAIN payments :
        /\ payments[p].status = "canceled" /\ payments[p].paid_at = NoDate
        /\ users[payments[p].user_id] = NewUser(users[payments[p].user_id].telegram_id)
        /\ nreq = 1 /\ reply = "ok" /\ now = MaxTime

\* C16: the stored status of every payment is pending, succeeded or
\* canceled, whatever status text a well-formed notification carries.
C16_StatusDomain ==
    \A p \in DOMAIN payments :
        payments[p].status \in {"pending", "succeeded", "canceled"}

\* the notification (p, s) finds its payment, the user and the tariff
Activating(p, s) ==
    /\ s = "succeeded"
    /\ p \in DOMAIN payments
    /\ payments[p].user_id \in DOMAIN users
    /\ payments[p].tariff_id \in DOMAIN tariffs

\* h takes a step of a delivery that does not answer it yet
InFlightStep(h) ==
    \/ \E p \in WebhookPaymentIds, s \in WebhookInputStatuses :
           yookassa_webhook(h, p, s) /\ req'[h].pc # "idle"
    \/ \E ok \in BOOLEAN : add_client(h, ok)
    \/ \E ok \in BOOLEAN : update_client(h, ok)

\* C15: every delivery of a notification appends exactly one entry to the
\* audit log, whatever its outcome; an activating delivery appends one entry,
\* not two.
C15_OneLogPerDelivery ==
    [][\A h \in Handlers :
          /\ InFlightStep(h) => logs' = logs
          /\ webhook_finish(h) => logs' = logs + 1
          /\ \A p \in WebhookPaymentIds, s \in WebhookInputStatuses :
                (yookassa_webhook(h, p, s) /\ req'[h].pc = "idle")
                => logs' = logs + 1
      ]_vars

\* C15, amended: every delivery appends exactly one entry, except a delivery
\* that activates a subscription and is acknowledged, which appends two (one
\* for the activation, one for the change of status).
C15_LogsPerDelivery ==
    [][\A h \in Handlers :
          /\ InFlightStep(h) => logs' = logs
          /\ webhook_finish(h) => Activating(req[h].payment_id, req[h].status)
                                   /\ reply' = "ok" /\ logs' = logs + 2
          /\ \A p \in WebhookPaymentIds, s \in WebhookInputStatuses :
                (yookassa_webhook(h, p, s) /\ req'[h].pc = "idle")
                => logs' = logs + (IF Activating(p, s) /\ reply' = "ok"
                                   THEN 2 ELSE 1)
      ]_vars

\* one delivery, which provisioned two endpoints and activated the user, has
\* been acknowledged: the log has two entries more than at the start
C15_Witness ==
    /\ nreq = 1 /\ logs = 3 /\ reply = "ok" /\ AllIdle
    /\ users[1].renewal_count = 1
    /\ Len(users[1].config_links.results) = 2
    /\ payments[1].status = "succeeded"

\* C17: for every user, total_purchases and renewal_count never decrease,
\* whatever payment creations, notifications and admin extensions are
\* served, for every tariff create_tariff accepts.
C17_CountersNeverDecrease ==
    [][\A u \in DOMAIN users :
          u \in DOMAIN users'
          => /\ users'[u].total_purchases >= users[u].total_purchases
             /\ users'[u].renewal_count >= users[u].renewal_count
      ]_vars

\* the payments of user u that are stored as succeeded
Paid(u) ==
    {p \in DOMAIN payments :
        payments[p].user_id = u /\ payments[p].status = "succeeded"}

RECURSIVE SumPrices(_)
\* the sum of the prices of the tariffs of a set of payments
SumPrices(ps) ==
    IF ps = {} THEN 0
    ELSE LET p == CHOOSE q \in ps : TRUE IN
         tariffs[payments[p].tariff_id].price + SumPrices(ps \ {p})

\* C20: in every committed state a payment is stored as succeeded iff its
\* activation was applied to its user exactly once: every succeeded payment
\* has its user, who was activated once per succeeded payment and not for a
\* payment stored with another status.
C20_SucceededIffActivatedOnce ==
    /\ \A p \in DOMAIN payments :
          payments[p].status = "succeeded" => payments[p].user_id \in DOMAIN users
    /\ \A u \in DOMAIN users :
          /\ users[u].total_purchases = SumPrices(Paid(u))
          /\ users[u].renewal_count >= Cardinality(Paid(u))
          /\ Paid(u) # {} => users[u].subscription_end_date # NoDate

\* C19: one user without subscription, two payments for tariffs of d1 and d2
\* days whose succeeded notifications arrive at T and at T2 with
\* T < T2 < T + d1, each once: when both are answered the end date is
\* T + d1 + d2, renewal_count is 2 and total_purchases the sum of the prices.
C19_StackingAcrossPurchases ==
    \A p \in DOMAIN payments, q \in DOMAIN payments :
        LET T == payments[p].paid_at
            T2 == payments[q].paid_at
            d1 == tariffs[payments[p].tariff_id].duration_days
            d2 == tariffs[payments[q].tariff_id].duration_days
            u == users[payments[p].user_id]
        IN
        (/\ p # q /\ payments[p].user_id = payments[q].user_id
         /\ AllIdle /\ nreq = 2
         /\ payments[p].status = "succeeded" /\ payments[q].status = "succeeded"
         /\ T < T2 /\ T2 < T + d1)
        => /\ u.subscription_end_date = T + d1 + d2
           /\ u.renewal_count = 2
           /\ u.total_purchases = tariffs[payments[p].tariff_id].price
                                   + tariffs[payments[q].tariff_id].price

\* the texts of BotTexts that are written integers, with their values
DayCountOf ==
    (<<"0">> :> 0) @@ (<<"1">> :> 1) @@ (<<"3", "6", "5">> :> 365) @@
    (<<"3", "6", "6">> :> 366) @@ (<<"4", "0", "0">> :> 400) @@
    (<<"-", "5">> :> 0 - 5) @@ (<<" ", "7", " ">> :> 7) @@ (<<"+", "3">> :> 3) @@
    (<<"1", "_", "0">> :> 10)

\* the text is an integer d with 1 <= d <= 365
InWindow(text) ==
    /\ text \in DOMAIN DayCountOf
    /\ 1 <= DayCountOf[text] /\ DayCountOf[text] <= 365

\* C18: in the extension dialogue a day-count input is accepted (a price
\* offer is built) iff it is an integer d with 1 <= d <= 365; every other
\* input is answered with the validation message.
C18_AcceptedIffInWindow ==
    [][\A text \in BotTexts, served \in BOOLEAN :
          process_extend_days(text, served)
          => /\ answer'.kind = "offer" <=> InWindow(text)
             /\ ~InWindow(text) => answer'.kind = "invalid_days"
      ]_vars

\* C18, amended: a text input is answered with the validation message iff
\* it is not an integer d with 1 <= d <= 365; a price offer (for d days) is
\* built iff it is one and the backend served a list of tariffs that is
\* not empty and whose first tariff has a duration other than 0.
C18_ValidationWindow ==
    [][\A text \in BotTexts \ {NoText}, served \in BOOLEAN :
          process_extend_days(text, served)
          => /\ answer'.kind = "invalid_days" <=> ~InWindow(text)
             /\ answer'.kind = "offer" <=>
                    /\ InWindow(text)
                    /\ served /\ tariffs # <<>>
                    /\ tariffs[1].duration_days # 0
             /\ answer'.kind = "offer" =>
                    /\ answer'.days = DayCountOf[text]
                    /\ answer'.price = tariffs[1].price
                    /\ answer'.duration_days = tariffs[1].duration_days
      ]_vars

\* an offer for 365 days was built, and the dialogue is over
C18_Witness ==
    /\ answer.kind = "offer" /\ answer.days = 365
    /\ fsm = NoState

\* C21: the Payment and User changes of a succeeded delivery are committed
\* before its first panel call: in no state has the panel created or updated
\* an entry for a payment that is still stored as pending.
C21_LedgerBeforeProvisioning ==
    \A h \in Handlers :
        LET f == req[h] IN
        (/\ f.pc # "idle"
         /\ \E i \in 1..Len(f.calls) : f.calls[i].ok)
        => payments[f.payment_id].status # "pending"

\* C22: when the webhook handler fails while it processes a notification (it
\* answers with a server error), no change of the Payment row and no change
\* of the User row is stored.
C22_FailurePersistsNothing ==
    [][\A h \in Handlers, p \in WebhookPaymentIds, s \in WebhookInputStatuses :
          (/\ yookassa_webhook(h, p, s)
           /\ req'[h].pc = "idle"
           /\ reply' = "500")
          => /\ payments' = payments
             /\ users' = users
      ]_vars

\* C23: a succeeded notification for a tariff of d days and an admin
\* extension of a days run concurrently on one user: when the handler of the
\* notification commits after the extension did, renewal_count ends 2 higher
\* than the handler read it, and the end date carries both d and a days (in
\* one of the two orders).
C23_NoLostUpdate ==
    [][\A h \in Handlers, a \in ExtendDays, t \in 0..MaxTime :
          LET f == req[h]
              E0 == f.loaded.subscription_end_date
          IN
          (/\ webhook_finish(h)
           /\ f.status = "succeeded"
           /\ f.at <= t /\ t <= now
           /\ Ledger(users[f.user_id]) = Ledger(ExtendedUser(f.loaded, a, t)))
          => /\ users'[f.user_id].renewal_count = f.loaded.renewal_count + 2
             /\ users'[f.user_id].subscription_end_date \in
                   { WebhookNewEnd(AdminNewEnd(E0, a, t), f.days, f.at),
                     AdminNewEnd(WebhookNewEnd(E0, f.days, f.at), a, t) }
      ]_vars

\* C24: a user with subscription_active set has an end date; and whenever the
\* webhook activation or the admin extension, with any input it accepts,
\* writes subscription_active = TRUE, the end date it stores is strictly
\* after the time the operation read as now.
C24_ActiveMeansFutureEnd ==
    [][/\ \A u \in DOMAIN users' :
             users'[u].subscription_active => users'[u].subscription_end_date # NoDate
       /\ \A u \in UserInputs, d \in ExtendDays :
             (extend_user_subscription(u, d) /\ u \in DOMAIN users)
             => users'[u].subscription_end_date > now
       /\ \A h \in Handlers, p \in WebhookPaymentIds :
             (/\ yookassa_webhook(h, p, "succeeded")
              /\ Activating(p, "succeeded")
              /\ req'[h].pc = "idle")
             => users'[payments[p].user_id].subscription_end_date > now
       /\ \A h \in Handlers :
             webhook_finish(h)
             => users'[req[h].user_id].subscription_end_date > req[h].at
      ]_vars

\* C25: whatever payment-creation requests are served, there is at most one
\* User row per account identifier, and every Payment row is created with
\* status pending, for a user that exists (the one of the account), under an
\* identifier no other payment has.
C25_PaymentCreation ==
    [][\A t \in TariffInputs, tg \in TelegramIds, ok \in BOOLEAN :
          create_payment(t, tg, ok)
          => LET created == DOMAIN payments' \ DOMAIN payments IN
             /\ \A u \in DOMAIN users', v \in DOMAIN users' :
                   users'[u].telegram_id = users'[v].telegram_id => u = v
             /\ \A p \in DOMAIN payments : payments'[p] = payments[p]
             /\ Cardinality(created) = IF reply' = "ok" THEN 1 ELSE 0
             /\ \A p \in created :
                   /\ payments'[p].status = "pending"
                   /\ payments'[p].paid_at = NoDate
                   /\ payments'[p].user_id \in DOMAIN users'
                   /\ users'[payments'[p].user_id].telegram_id = tg
      ]_vars

\* two payments were created for one account, which has one user row
C25_Witness ==
    /\ Cardinality(DOMAIN payments) = 2
    /\ Cardinality(DOMAIN users) = 1
    /\ \A p \in DOMAIN payments :
          payments[p].status = "pending" /\ payments[p].user_id \in DOMAIN users
    /\ nreq = 2 /\ reply = "ok"

\* C26: in the extension dialogue, after any input handled while the chat
\* waits for a day count, the chat has no FSM state left (Idle), and the
\* handler has not failed with an exception.
C26_BackToIdle ==
    [][\A text \in BotTexts, served \in BOOLEAN :
          process_extend_days(text, served)
          => /\ fsm' = NoState
             /\ answer'.kind # "exception"
      ]_vars

\* C27: a payment is created only by a tariff selection made while the chat
\* is in PaymentState.waiting_for_tariff, and that selection moves the chat to
\* a state of its own, in which the payment's confirmation is awaited (none of
\* the idle state, waiting_for_tariff, waiting_for_days); a selection made in
\* any other state creates no payment.
C27_PaymentInitiationByState ==
    [][/\ DOMAIN payments' # DOMAIN payments
          => \E i \in 1..MaxKeyboards, t \in DOMAIN InitTariffs,
                accepted \in BOOLEAN, ok \in BOOLEAN :
                process_tariff_selection(i, t, accepted, ok)
       /\ \A i \in 1..MaxKeyboards, t \in DOMAIN InitTariffs,
             accepted \in BOOLEAN, ok \in BOOLEAN :
             process_tariff_selection(i, t, accepted, ok)
             => /\ fsm # "waiting_for_tariff" => payments' = payments
                /\ payments' # payments
                   => fsm' \notin {NoState, "waiting_for_tariff",
                                   "waiting_for_days"}]_vars

\* C28: a press of the check button returns the chat to the idle state and
\* changes no row of payments or users.
C28_CheckReturnsToIdle ==
    [][\A i \in 1..MaxKeyboards :
          check_payment(i)
          => fsm' = NoState /\ payments' = payments /\ users' = users]_vars

====
